---- MODULE Spec2Model ----
(***************************************************************************)
(* Model of the ConcentratorD backend of the gateway bridge                *)
(* (internal/backend/concentratord/concentratord.go): NewBackend, the      *)
(* command request/reply exchange guarded by commandMux, SendDownlinkFrame, *)
(* Close, and the event loop with its two handlers.                        *)
(***************************************************************************)
EXTENDS Integers, Sequences, FiniteSets, TLC

\* ------------------------------------------------------- program constants

\* make(chan ..., 1): the capacity of each of the four output channels.
ChanCap == 1

\* lorawan.EUI64 is [8]byte.
EUI64Len == 8

\* SendDownlinkFrame: loRaModInfo.Bandwidth * 1000; handleUplinkFrame: / 1000.
BandwidthFactor == 1000

\* One 16-bit limb of a uint32 (the Bandwidth field is a uint32).
Limb == 65536

None == "none"

\* ---------------------------------------------------------- uint32 values
\* A uint32 is kept as two 16-bit limbs, value = hi * 2^16 + lo, so that the
\* wrap-around of the Go arithmetic is computed and not left to the checker's
\* own integers.

U32(n) == [hi |-> n \div Limb, lo |-> n % Limb]

\* The mathematical product u * 1000, as three limbs (ov is the part that does
\* not fit in 32 bits).
WideMul1000(u) ==
    LET p0 == u.lo * BandwidthFactor
        p1 == u.hi * BandwidthFactor + (p0 \div Limb)
    IN  [ov |-> p1 \div Limb, hi |-> p1 % Limb, lo |-> p0 % Limb]

\* Go's uint32 multiplication: the product modulo 2^32.
Mul1000(u) ==
    LET w == WideMul1000(u)
    IN  [hi |-> w.hi, lo |-> w.lo]

\* Go's uint32 division by 1000 (truncating), by long division on the limbs.
Div1000(u) ==
    LET r == u.hi % BandwidthFactor
    IN  [hi |-> u.hi \div BandwidthFactor,
         lo |-> (r * Limb + u.lo) \div BandwidthFactor]

\* ------------------------------------------------------------------ codec
\* proto.Marshal / proto.Unmarshal: a byte string is <<>> (zero length),
\* <<"garbage">> (bytes that decode as nothing) or <<type, message>>.

Garbage == <<"garbage">>

Marshal(type, v) == <<type, v>>

CRC_OK == "CRC_OK"
BAD_CRC == "BAD_CRC"
NO_CRC == "NO_CRC"

\* The zero value of each message type: what zero bytes decode to.
ZeroMsg(type) ==
    CASE type = "UplinkFrame" -> [crc |-> NO_CRC, lora |-> FALSE, bw |-> U32(0)]
      [] type = "GatewayStats" -> [stats_id |-> 0]
      [] type = "DownlinkTXAck" -> [token |-> 0]
      [] OTHER -> [lora |-> FALSE, bw |-> U32(0)]

\* proto.Unmarshal(bb, &pl): [err, pl].
Unmarshal(type, bb) ==
    IF Len(bb) = 0 THEN [err |-> FALSE, pl |-> ZeroMsg(type)]
    ELSE IF Len(bb) = 2 /\ bb[1] = type THEN [err |-> FALSE, pl |-> bb[2]]
    ELSE [err |-> TRUE, pl |-> ZeroMsg(type)]

\* copy(gatewayID[:], bb): the first 8 bytes of bb over a zeroed EUI64.
CopyEUI64(bb) ==
    [i \in 1..EUI64Len |-> IF i <= Len(bb) THEN bb[i] ELSE 0]

\* ----------------------------------------------------------------- inputs

\* The caller of NewBackend (it runs getGatewayID) and the goroutines of the
\* upstream application that call SendDownlinkFrame.
Initializer == "init"
Senders == {"s1", "s2"}
Callers == {Initializer} \cup Senders

\* LoRa bandwidths the upstream application puts in a DownlinkFrame: a usual
\* one and the smallest whose product with 1000 does not fit a uint32.
DownBandwidths == {U32(125), U32(4294968)}

\* gw.DownlinkFrame, reduced to its token (here the name of the caller that
\* sends it) and to GetTxInfo().GetLoraModulationInfo(): absent, or present
\* with a bandwidth.
DownlinkFrames(token) ==
    {[token |-> token, lora |-> FALSE, bw |-> U32(0)]}
        \cup {[token |-> token, lora |-> TRUE, bw |-> b] : b \in DownBandwidths}

\* gw.UplinkFrame, reduced to GetRxInfo().GetCrcStatus() and the LoRa
\* modulation info: a good frame whose wire bandwidth is a multiple of 1000
\* and a frame with a bad CRC whose wire bandwidth is not.
UplinkFrames ==
    {[crc |-> CRC_OK, lora |-> TRUE, bw |-> U32(125000)],
     [crc |-> BAD_CRC, lora |-> TRUE, bw |-> U32(125999)]}

\* gw.GatewayStats, reduced to its stats id.
GatewayStatsSet == {[stats_id |-> 1]}

\* The second frame of a two-frame event message.
UpPayloads == {Marshal("UplinkFrame", f) : f \in UplinkFrames}
StatsPayloads == {Marshal("GatewayStats", g) : g \in GatewayStatsSet}

\* Replies of the peer to "gateway_id": a short and an exact byte string.
GatewayIDReplies == {<<1, 2, 3>>, <<1, 2, 3, 4, 5, 6, 7, 8>>}

\* ------------------------------------------------------------------ state

VARIABLES
    crcCheck,            \* Backend.crcCheck
    fatal,               \* the message of the log.Fatal that ended the process
    newBackend,          \* position of NewBackend
    gatewayID,           \* NewBackend's local gatewayID
    eventSockClosed,     \* eventSock.Close() was called
    commandMux,          \* the caller holding Backend.commandMux
    pc,                  \* position of each caller
    pl,                  \* SendDownlinkFrame: the frame pl, as given and as sent
    res,                 \* commandRequest's result in the caller: [err, bb, of]
    ret,                 \* what the last SendDownlinkFrame call returned
    cmdOut,              \* commandSock: requests sent, not yet answered
    cmdIn,               \* commandSock: replies not yet received
    loopPc,              \* position of the eventLoop goroutine
    loopMsg,             \* eventLoop: (msg, err) as eventSock.Recv() returned it
    loopPl,              \* handler: the item about to be sent on its channel
    downlinkTXAckChan,
    uplinkFrameChan,
    gatewayStatsChan,
    subscribeEventChan,
    nSubscribe           \* number of sends on subscribeEventChan so far

chans == <<downlinkTXAckChan, uplinkFrameChan, gatewayStatsChan, subscribeEventChan>>

callerVars == <<commandMux, pc, pl, res, ret>>

sockVars == <<cmdOut, cmdIn>>

loopVars == <<loopPc, loopMsg, loopPl>>

initVars == <<crcCheck, newBackend, gatewayID, nSubscribe>>

vars == <<initVars, fatal, eventSockClosed, callerVars, sockVars, loopVars, chans>>

NoFrame == [token |-> None, lora |-> FALSE, bw |-> U32(0)]
NoPl == [given |-> NoFrame, sent |-> NoFrame]
\* The result of commandRequest as the caller holds it: the error, the bytes
\* of the reply, and two facts about the exchange kept for the properties:
\* whose request the reply answers (of) and which other senders already held
\* an acknowledgement that they had not yet sent on the channel (before).
NoRes == [err |-> FALSE, bb |-> <<>>, of |-> None, before |-> {}]
ErrRes == [NoRes EXCEPT !.err = TRUE]
NoMsg == [err |-> FALSE, frames |-> <<>>]

\* The process runs until a log.Fatal (os.Exit) ends it.
Alive == fatal = None

\* NewBackend, lines 42-52: the state right after the struct is built.
Init ==
    /\ crcCheck \in BOOLEAN
    /\ fatal = None
    /\ newBackend = "dial"
    /\ gatewayID = CopyEUI64(<<>>)
    /\ eventSockClosed = FALSE
    /\ commandMux = None
    /\ pc = [c \in Callers |-> "idle"]
    /\ pl = [c \in Callers |-> NoPl]
    /\ res = [c \in Callers |-> NoRes]
    /\ ret = [c \in Callers |-> None]
    /\ cmdOut = <<>>
    /\ cmdIn = <<>>
    /\ loopPc = "off"
    /\ loopMsg = NoMsg
    /\ loopPl = <<>>
    /\ downlinkTXAckChan = <<>>
    /\ uplinkFrameChan = <<>>
    /\ gatewayStatsChan = <<>>
    /\ subscribeEventChan = <<>>
    /\ nSubscribe = 0

\* --------------------------------------------------------------- channels

\* A send on a buffered channel blocks while the buffer is full.
ChanFull_Unbounded(ch) == FALSE

ChanFull(ch) == Len(ch) >= ChanCap

\* ---------------------------------------------------------- commandRequest

\* b.commandMux.Lock() can be taken.
MuxFree_NoLock == TRUE

MuxFree == commandMux = None

\* commandRequest, line 168: b.commandMux.Lock().
CommandLock(c) ==
    /\ Alive
    /\ pc[c] = "lock"
    /\ MuxFree
    /\ commandMux' = c
    /\ pc' = [pc EXCEPT ![c] = "send"]
    /\ UNCHANGED <<pl, res, ret, sockVars, initVars, fatal,
                   eventSockClosed, loopVars, chans>>

\* The command and the payload of the request a caller makes:
\* getGatewayID asks "gateway_id" with v = nil, SendDownlinkFrame "down" with &pl.
RequestOf(c) ==
    IF c = Initializer
    THEN [from |-> c, command |-> "gateway_id", payload |-> <<>>]
    ELSE [from |-> c, command |-> "down",
          payload |-> Marshal("DownlinkFrame", pl[c].sent)]

\* commandRequest, lines 174-184: marshal v, build the message and SendMulti it.
\* A marshal error (only with v != nil) or a send error returns the error; the
\* deferred Unlock runs on every return. The caller does not read its frame
\* after commandRequest has returned.
CommandSend(c) ==
    /\ Alive
    /\ pc[c] = "send"
    /\ \E outcome \in {"sent", "marshal error", "send error"} :
        /\ outcome = "marshal error" => c # Initializer
        /\ IF outcome = "sent"
           THEN /\ cmdOut' = Append(cmdOut, RequestOf(c))
                /\ pc' = [pc EXCEPT ![c] = "recv"]
                /\ UNCHANGED <<commandMux, res, pl>>
           ELSE /\ commandMux' = None
                /\ res' = [res EXCEPT ![c] = ErrRes]
                /\ pc' = [pc EXCEPT ![c] = "returned"]
                /\ pl' = [pl EXCEPT ![c] = NoPl]
                /\ UNCHANGED cmdOut
    /\ UNCHANGED <<ret, cmdIn, initVars, fatal, eventSockClosed,
                   loopVars, chans>>

\* Sender d has got from commandRequest a reply that decodes as an
\* acknowledgement and has not yet sent it on downlinkTXAckChan.
HoldsAck(d) ==
    /\ pc[d] \in {"returned", "ack"}
    /\ ~res[d].err
    /\ Len(res[d].bb) # 0
    /\ ~Unmarshal("DownlinkTXAck", res[d].bb).err

\* A Recv that gives up waiting: it returns an error while the connection and
\* the request on it stay as they are.
CommandRecv_Timeout(c) ==
    /\ Alive
    /\ pc[c] = "recv"
    /\ \/ /\ cmdIn # <<>>
          /\ res' = [res EXCEPT ![c] =
                       [err |-> FALSE, bb |-> Head(cmdIn).bytes,
                        of |-> Head(cmdIn).of,
                        before |-> {d \in Senders \ {c} : HoldsAck(d)}]]
          /\ cmdIn' = Tail(cmdIn)
          /\ UNCHANGED cmdOut
       \/ /\ res' = [res EXCEPT ![c] = ErrRes]
          /\ UNCHANGED <<cmdOut, cmdIn>>
    /\ commandMux' = None
    /\ pc' = [pc EXCEPT ![c] = "returned"]
    /\ pl' = [pl EXCEPT ![c] = NoPl]
    /\ UNCHANGED <<ret, initVars, fatal,
                   eventSockClosed, loopVars, chans>>

\* commandRequest, lines 186-191: b.commandSock.Recv(), then return with the
\* deferred Unlock. Recv yields the next reply on the socket, or an error. An
\* error of Recv is a fault of the transport: the connection is lost, and with
\* it the request that was sent and a reply that was not yet received.
CommandRecv(c) ==
    /\ Alive
    /\ pc[c] = "recv"
    /\ \/ /\ cmdIn # <<>>
          /\ res' = [res EXCEPT ![c] =
                       [err |-> FALSE, bb |-> Head(cmdIn).bytes,
                        of |-> Head(cmdIn).of,
                        before |-> {d \in Senders \ {c} : HoldsAck(d)}]]
          /\ cmdIn' = Tail(cmdIn)
          /\ UNCHANGED cmdOut
       \/ /\ res' = [res EXCEPT ![c] = ErrRes]
          /\ cmdOut' = <<>>
          /\ cmdIn' = <<>>
    /\ commandMux' = None
    /\ pc' = [pc EXCEPT ![c] = "returned"]
    /\ pl' = [pl EXCEPT ![c] = NoPl]
    /\ UNCHANGED <<ret, initVars, fatal,
                   eventSockClosed, loopVars, chans>>

\* The peer (the concentrator daemon) answers the oldest request: raw bytes for
\* "gateway_id"; for "down" nothing, undecodable bytes, or an acknowledgement
\* of the frame's token. The reply remembers whose request it answers.
PeerReply ==
    /\ Alive
    /\ cmdOut # <<>>
    /\ LET req == Head(cmdOut)
       IN  \E bytes \in IF req.command = "gateway_id"
                        THEN GatewayIDReplies
                        ELSE {<<>>, Garbage,
                              Marshal("DownlinkTXAck",
                                      [token |-> req.payload[2].token])} :
               cmdIn' = Append(cmdIn, [of |-> req.from, bytes |-> bytes])
    /\ cmdOut' = Tail(cmdOut)
    /\ UNCHANGED <<callerVars, initVars, fatal, eventSockClosed, loopVars, chans>>

\* -------------------------------------------------------------- NewBackend

\* A NewBackend that starts the event loop before it asks for the gateway ID.
NewBackendDial_LoopFirst ==
    /\ newBackend = "dial"
    /\ \E ok \in BOOLEAN :
        IF ok
        THEN /\ newBackend' = "gateway_id"
             /\ pc' = [pc EXCEPT ![Initializer] = "lock"]
             /\ loopPc' = "recv"
        ELSE /\ newBackend' = "failed"
             /\ UNCHANGED <<pc, loopPc>>
    /\ UNCHANGED <<crcCheck, gatewayID, nSubscribe, commandMux, pl, res, ret,
                   sockVars, fatal, eventSockClosed, loopMsg, loopPl, chans>>

\* NewBackend, lines 54-69: dial the event socket, subscribe, dial the command
\* socket (any of them may fail: NewBackend returns nil and the error), then
\* call getGatewayID, which calls commandRequest("gateway_id", nil).
NewBackendDial ==
    /\ newBackend = "dial"
    /\ \E ok \in BOOLEAN :
        IF ok
        THEN /\ newBackend' = "gateway_id"
             /\ pc' = [pc EXCEPT ![Initializer] = "lock"]
        ELSE /\ newBackend' = "failed"
             /\ UNCHANGED pc
    /\ UNCHANGED <<crcCheck, gatewayID, nSubscribe, commandMux, pl, res, ret,
                   sockVars, fatal, eventSockClosed, loopVars, chans>>

\* getGatewayID, lines 84-91, and NewBackend, lines 69-72: an error of
\* commandRequest fails NewBackend; otherwise the reply is copied into the EUI64.
GetGatewayID ==
    /\ newBackend = "gateway_id"
    /\ pc[Initializer] = "returned"
    /\ IF res[Initializer].err
       THEN /\ newBackend' = "failed"
            /\ UNCHANGED gatewayID
       ELSE /\ newBackend' = "subscribe"
            /\ gatewayID' = CopyEUI64(res[Initializer].bb)
    /\ pc' = [pc EXCEPT ![Initializer] = "idle"]
    /\ res' = [res EXCEPT ![Initializer] = NoRes]
    /\ UNCHANGED <<crcCheck, nSubscribe, commandMux, pl, ret, sockVars, fatal, eventSockClosed, loopVars, chans>>

\* An event with the Subscribe flag cleared.
SubscribeEvent_Unsubscribe(id) == [Subscribe |-> FALSE, GatewayID |-> id]

\* events.Subscribe{Subscribe: true, GatewayID: gatewayID}
SubscribeEvent(id) == [Subscribe |-> TRUE, GatewayID |-> id]

\* NewBackend, line 74: b.subscribeEventChan <- events.Subscribe{...}.
NewBackendSubscribe ==
    /\ newBackend = "subscribe"
    /\ ~ChanFull(subscribeEventChan)
    /\ subscribeEventChan' = Append(subscribeEventChan, SubscribeEvent(gatewayID))
    /\ nSubscribe' = nSubscribe + 1
    /\ newBackend' = "go"
    /\ UNCHANGED <<crcCheck, gatewayID, callerVars, sockVars, fatal, eventSockClosed,
                   loopVars, downlinkTXAckChan, uplinkFrameChan, gatewayStatsChan>>

\* NewBackend, lines 76-78: go b.eventLoop(); return &b, nil.
NewBackendReturn ==
    /\ newBackend = "go"
    /\ newBackend' = "done"
    /\ loopPc' = "recv"
    /\ gatewayID' = CopyEUI64(<<>>)
    /\ UNCHANGED <<crcCheck, nSubscribe, callerVars, sockVars, fatal,
                   eventSockClosed, loopMsg, loopPl, chans>>

\* The Backend exists for its users once NewBackend has returned it.
Running == newBackend = "done" /\ Alive

\* A Close that also stops the event loop.
Close_StopsLoop ==
    /\ Running
    /\ ~eventSockClosed
    /\ eventSockClosed' = TRUE
    /\ loopPc' = "off"
    /\ UNCHANGED <<initVars, fatal, callerVars, sockVars, loopMsg, loopPl, chans>>

\* Close, lines 95-98: b.eventSock.Close().
Close ==
    /\ Running
    /\ ~eventSockClosed
    /\ eventSockClosed' = TRUE
    /\ UNCHANGED <<initVars, fatal, callerVars, sockVars, loopVars, chans>>

\* -------------------------------------------------------- SendDownlinkFrame

\* SendDownlinkFrame, lines 122-125: with LoRa modulation info the bandwidth is
\* multiplied by 1000, in place.
RebaseDown(f) ==
    IF f.lora THEN [f EXCEPT !.bw = Mul1000(f.bw)] ELSE f

\* SendDownlinkFrame, lines 121-134: the upstream application calls it with a
\* frame; the bandwidth is rebased and commandRequest("down", &pl) is called.
SendDownlinkFrame(c) ==
    /\ Running
    /\ pc[c] = "idle"
    /\ \E f \in DownlinkFrames(c) :
        pl' = [pl EXCEPT ![c] = [given |-> f, sent |-> RebaseDown(f)]]
    /\ ret' = [ret EXCEPT ![c] = None]
    /\ pc' = [pc EXCEPT ![c] = "lock"]
    /\ UNCHANGED <<commandMux, res, sockVars, initVars, fatal,
                   eventSockClosed, loopVars, chans>>

\* What SendDownlinkFrame does with the result of commandRequest, lines 135-145:
\* "fatal" (log.Fatal), an error returned to the caller ("no reply",
\* "unmarshal error"), or "ack" (go on to send the decoded acknowledgement).
DownlinkOutcome_NoLenCheck(r) ==
    IF r.err THEN "fatal"
    ELSE IF Unmarshal("DownlinkTXAck", r.bb).err THEN "unmarshal error"
    ELSE "ack"

DownlinkOutcome_ErrReturned(r) ==
    IF r.err THEN "request error"
    ELSE IF Len(r.bb) = 0 THEN "no reply"
    ELSE IF Unmarshal("DownlinkTXAck", r.bb).err THEN "unmarshal error"
    ELSE "ack"

DownlinkOutcome_FatalOnEmpty(r) ==
    IF r.err \/ Len(r.bb) = 0 THEN "fatal"
    ELSE IF Unmarshal("DownlinkTXAck", r.bb).err THEN "unmarshal error"
    ELSE "ack"

DownlinkOutcome_FatalOnGarbage(r) ==
    IF r.err THEN "fatal"
    ELSE IF Len(r.bb) = 0 THEN "no reply"
    ELSE IF Unmarshal("DownlinkTXAck", r.bb).err THEN "fatal"
    ELSE "ack"

DownlinkOutcome(r) ==
    IF r.err THEN "fatal"
    ELSE IF Len(r.bb) = 0 THEN "no reply"
    ELSE IF Unmarshal("DownlinkTXAck", r.bb).err THEN "unmarshal error"
    ELSE "ack"

\* SendDownlinkFrame, lines 134-145, after commandRequest has returned.
SendDownlinkFrameReply(c) ==
    /\ Alive
    /\ c \in Senders
    /\ pc[c] = "returned"
    /\ LET o == DownlinkOutcome(res[c])
       IN  /\ fatal' = IF o = "fatal" THEN "send downlink command error" ELSE fatal
           /\ pc' = [pc EXCEPT ![c] = CASE o = "fatal" -> "exit"
                                        [] o = "ack" -> "ack"
                                        [] OTHER -> "idle"]
           /\ ret' = [ret EXCEPT ![c] = IF o \in {"fatal", "ack"} THEN None ELSE o]
           /\ res' = [res EXCEPT ![c] = IF o \in {"fatal", "ack"} THEN res[c] ELSE NoRes]
    /\ UNCHANGED <<commandMux, pl, sockVars, initVars,
                   eventSockClosed, loopVars, chans>>

\* A SendDownlinkFrame that returns nil without the channel send.
SendDownlinkFrameAck_NoEnqueue(c) ==
    /\ Alive
    /\ pc[c] = "ack"
    /\ ret' = [ret EXCEPT ![c] = "nil"]
    /\ res' = [res EXCEPT ![c] = NoRes]
    /\ pc' = [pc EXCEPT ![c] = "idle"]
    /\ UNCHANGED <<commandMux, pl, sockVars, initVars, fatal,
                   eventSockClosed, loopVars, chans>>

\* A SendDownlinkFrame that waits with its channel send for the senders whose
\* exchange completed before its own.
SendDownlinkFrameAck_InOrder(c) ==
    /\ Alive
    /\ pc[c] = "ack"
    /\ ~ChanFull(downlinkTXAckChan)
    /\ \A d \in res[c].before : ~(HoldsAck(d) /\ c \notin res[d].before)
    /\ downlinkTXAckChan' =
           Append(downlinkTXAckChan, Unmarshal("DownlinkTXAck", res[c].bb).pl)
    /\ ret' = [ret EXCEPT ![c] = "nil"]
    /\ res' = [res EXCEPT ![c] = NoRes]
    /\ pc' = [pc EXCEPT ![c] = "idle"]
    /\ UNCHANGED <<commandMux, pl, sockVars, initVars, fatal,
                   eventSockClosed, loopVars, uplinkFrameChan, gatewayStatsChan,
                   subscribeEventChan>>

\* SendDownlinkFrame, lines 147-149: b.downlinkTXAckChan <- ack; return nil.
SendDownlinkFrameAck(c) ==
    /\ Alive
    /\ pc[c] = "ack"
    /\ ~ChanFull(downlinkTXAckChan)
    /\ downlinkTXAckChan' =
           Append(downlinkTXAckChan, Unmarshal("DownlinkTXAck", res[c].bb).pl)
    /\ ret' = [ret EXCEPT ![c] = "nil"]
    /\ res' = [res EXCEPT ![c] = NoRes]
    /\ pc' = [pc EXCEPT ![c] = "idle"]
    /\ UNCHANGED <<commandMux, pl, sockVars, initVars, fatal,
                   eventSockClosed, loopVars, uplinkFrameChan, gatewayStatsChan,
                   subscribeEventChan>>

\* --------------------------------------------------------------- eventLoop

\* Event messages the peer publishes, as their list of frames: no frame,
\* three frames, an unknown topic, "up" and "stats" with undecodable, empty and
\* decodable payloads.
EventMsgs ==
    {<<>>, <<"up", Garbage, Garbage>>, <<"ping", Garbage>>,
     <<"up", Garbage>>, <<"stats", Garbage>>, <<"up", <<>>>>}
        \cup {<<"up", p>> : p \in UpPayloads}
        \cup {<<"stats", p>> : p \in StatsPayloads}

\* What eventSock.Recv() can return as (msg, err).
RecvError == [err |-> TRUE, frames |-> <<>>]
RecvResults == {RecvError} \cup {[err |-> FALSE, frames |-> f] : f \in EventMsgs}

\* The CRC gate of handleUplinkFrame, line 243: TRUE when the frame is ignored.
CrcDrop_Never(check, f) == FALSE

CrcDrop(check, f) == check /\ f.crc # CRC_OK

\* handleUplinkFrame, lines 251-254: with LoRa modulation info the bandwidth is
\* divided by 1000.
RebaseUp(f) ==
    IF f.lora THEN [f EXCEPT !.bw = Div1000(f.bw)] ELSE f

\* A handleUplinkFrame that goes on with the zero frame after a decode error.
handleUplinkFrame_IgnoreErr(bb) ==
    LET u == Unmarshal("UplinkFrame", bb)
    IN  IF CrcDrop(crcCheck, u.pl) THEN [err |-> FALSE, send |-> <<>>]
        ELSE [err |-> u.err, send |-> <<RebaseUp(u.pl)>>]

\* handleUplinkFrame, lines 233-263, up to the channel send: the error it
\* returns and the frame it sends, if any.
handleUplinkFrame(bb) ==
    LET u == Unmarshal("UplinkFrame", bb)
    IN  IF u.err THEN [err |-> TRUE, send |-> <<>>]
        ELSE IF CrcDrop(crcCheck, u.pl) THEN [err |-> FALSE, send |-> <<>>]
        ELSE [err |-> FALSE, send |-> <<RebaseUp(u.pl)>>]

\* handleGatewayStats, lines 265-282, up to the channel send.
handleGatewayStats(bb) ==
    LET u == Unmarshal("GatewayStats", bb)
    IN  IF u.err THEN [err |-> TRUE, send |-> <<>>]
        ELSE [err |-> FALSE, send |-> <<u.pl>>]

\* One pass of the loop body on (msg, err), lines 197-229: where the loop goes
\* next ("exit" after log.Fatal, "recv" for the next message, "up" or "stats"
\* for the channel send of a handler) and the item to send.
EventStep_FatalOnShape(m) ==
    IF m.err \/ Len(m.frames) # 2 THEN [next |-> "exit", send |-> <<>>]
    ELSE IF m.frames[1] = "up" /\ handleUplinkFrame(m.frames[2]).send # <<>>
         THEN [next |-> "up", send |-> handleUplinkFrame(m.frames[2]).send]
    ELSE IF m.frames[1] = "stats" /\ handleGatewayStats(m.frames[2]).send # <<>>
         THEN [next |-> "stats", send |-> handleGatewayStats(m.frames[2]).send]
    ELSE [next |-> "recv", send |-> <<>>]

\* The loop body with the default branch of the switch ending the loop.
EventStep_FatalOnTopic(m) ==
    IF m.err THEN [next |-> "exit", send |-> <<>>]
    ELSE IF Len(m.frames) # 2 THEN [next |-> "recv", send |-> <<>>]
    ELSE IF m.frames[1] = "up" /\ handleUplinkFrame(m.frames[2]).send # <<>>
         THEN [next |-> "up", send |-> handleUplinkFrame(m.frames[2]).send]
    ELSE IF m.frames[1] = "stats" /\ handleGatewayStats(m.frames[2]).send # <<>>
         THEN [next |-> "stats", send |-> handleGatewayStats(m.frames[2]).send]
    ELSE IF m.frames[1] \notin {"up", "stats"} THEN [next |-> "exit", send |-> <<>>]
    ELSE [next |-> "recv", send |-> <<>>]

EventStep(m) ==
    IF m.err THEN [next |-> "exit", send |-> <<>>]
    ELSE IF Len(m.frames) = 0 THEN [next |-> "recv", send |-> <<>>]
    ELSE IF Len(m.frames) # 2 THEN [next |-> "recv", send |-> <<>>]
    ELSE IF m.frames[1] = "up" /\ handleUplinkFrame(m.frames[2]).send # <<>>
         THEN [next |-> "up", send |-> handleUplinkFrame(m.frames[2]).send]
    ELSE IF m.frames[1] = "stats" /\ handleGatewayStats(m.frames[2]).send # <<>>
         THEN [next |-> "stats", send |-> handleGatewayStats(m.frames[2]).send]
    ELSE [next |-> "recv", send |-> <<>>]

\* eventLoop, line 196: msg, err := b.eventSock.Recv(). A closed socket yields
\* an error; an open one a message of the peer, or an error.
EventLoopRecv ==
    /\ Alive
    /\ loopPc = "recv"
    /\ \E m \in RecvResults :
        /\ ~m.err => ~eventSockClosed
        /\ loopMsg' = m
    /\ loopPc' = "handle"
    /\ UNCHANGED <<loopPl, initVars, fatal, eventSockClosed, callerVars, sockVars, chans>>

\* eventLoop, lines 197-229: the loop body on the received (msg, err), up to
\* the next Recv, the log.Fatal or a handler's channel send.
EventLoopHandle ==
    /\ Alive
    /\ loopPc = "handle"
    /\ LET s == EventStep(loopMsg)
       IN  /\ loopPc' = s.next
           /\ loopPl' = s.send
           /\ fatal' = IF s.next = "exit" THEN "receive event message error" ELSE fatal
    /\ loopMsg' = NoMsg
    /\ UNCHANGED <<initVars, eventSockClosed, callerVars, sockVars, chans>>

\* A handleUplinkFrame that gives up its frame when the channel is full.
HandleUplinkFrameSend_DropWhenFull ==
    /\ Alive
    /\ loopPc = "up"
    /\ uplinkFrameChan' = IF ChanFull(uplinkFrameChan) THEN uplinkFrameChan
                          ELSE Append(uplinkFrameChan, loopPl[1])
    /\ loopPl' = <<>>
    /\ loopPc' = "recv"
    /\ UNCHANGED <<loopMsg, initVars, fatal, eventSockClosed, callerVars,
                   sockVars, downlinkTXAckChan, gatewayStatsChan, subscribeEventChan>>

\* handleUplinkFrame, lines 260-262: b.uplinkFrameChan <- pl; return nil.
HandleUplinkFrameSend ==
    /\ Alive
    /\ loopPc = "up"
    /\ ~ChanFull(uplinkFrameChan)
    /\ uplinkFrameChan' = Append(uplinkFrameChan, loopPl[1])
    /\ loopPl' = <<>>
    /\ loopPc' = "recv"
    /\ UNCHANGED <<loopMsg, initVars, fatal, eventSockClosed, callerVars,
                   sockVars, downlinkTXAckChan, gatewayStatsChan, subscribeEventChan>>

\* handleGatewayStats, lines 279-281: b.gatewayStatsChan <- pl; return nil.
HandleGatewayStatsSend ==
    /\ Alive
    /\ loopPc = "stats"
    /\ ~ChanFull(gatewayStatsChan)
    /\ gatewayStatsChan' = Append(gatewayStatsChan, loopPl[1])
    /\ loopPl' = <<>>
    /\ loopPc' = "recv"
    /\ UNCHANGED <<loopMsg, initVars, fatal, eventSockClosed, callerVars,
                   sockVars, downlinkTXAckChan, uplinkFrameChan, subscribeEventChan>>

\* ---------------------------------------------------- upstream application
\* The upstream application receives from the channels the getters of the
\* Backend hand out (lines 100-118).

RecvDownlinkTXAck ==
    /\ Running
    /\ downlinkTXAckChan # <<>>
    /\ downlinkTXAckChan' = Tail(downlinkTXAckChan)
    /\ UNCHANGED <<initVars, fatal, eventSockClosed, callerVars, sockVars, loopVars,
                   uplinkFrameChan, gatewayStatsChan, subscribeEventChan>>

RecvUplinkFrame ==
    /\ Running
    /\ uplinkFrameChan # <<>>
    /\ uplinkFrameChan' = Tail(uplinkFrameChan)
    /\ UNCHANGED <<initVars, fatal, eventSockClosed, callerVars, sockVars, loopVars,
                   downlinkTXAckChan, gatewayStatsChan, subscribeEventChan>>

RecvGatewayStats ==
    /\ Running
    /\ gatewayStatsChan # <<>>
    /\ gatewayStatsChan' = Tail(gatewayStatsChan)
    /\ UNCHANGED <<initVars, fatal, eventSockClosed, callerVars, sockVars, loopVars,
                   downlinkTXAckChan, uplinkFrameChan, subscribeEventChan>>

RecvSubscribeEvent ==
    /\ Running
    /\ subscribeEventChan # <<>>
    /\ subscribeEventChan' = Tail(subscribeEventChan)
    /\ UNCHANGED <<initVars, fatal, eventSockClosed, callerVars, sockVars, loopVars,
                   downlinkTXAckChan, uplinkFrameChan, gatewayStatsChan>>

\* ------------------------------------------------------------ specification

Next ==
    \/ NewBackendDial
    \/ GetGatewayID
    \/ NewBackendSubscribe
    \/ NewBackendReturn
    \/ Close
    \/ \E c \in Callers : CommandLock(c)
    \/ \E c \in Callers : CommandSend(c)
    \/ \E c \in Callers : CommandRecv(c)
    \/ PeerReply
    \/ \E c \in Senders : SendDownlinkFrame(c)
    \/ \E c \in Senders : SendDownlinkFrameReply(c)
    \/ \E c \in Senders : SendDownlinkFrameAck(c)
    \/ EventLoopRecv
    \/ EventLoopHandle
    \/ HandleUplinkFrameSend
    \/ HandleGatewayStatsSend
    \/ RecvDownlinkTXAck
    \/ RecvUplinkFrame
    \/ RecvGatewayStats
    \/ RecvSubscribeEvent

Spec == Init /\ [][Next]_vars

\* The scheduling the liveness of the event path rests on: the goroutine of
\* the event loop runs whenever it can (its loop body, and a channel send
\* that is not blocked), and the upstream application keeps receiving from
\* the uplink-frame and the stats channel. Nothing is assumed of the peer, of
\* the senders or of Close. The event path is followed with one goroutine of
\* the application calling SendDownlinkFrame.
LiveSenders == {"s1"}

LiveNext ==
    \/ NewBackendDial
    \/ GetGatewayID
    \/ NewBackendSubscribe
    \/ NewBackendReturn
    \/ Close
    \/ \E c \in {Initializer} \cup LiveSenders : CommandLock(c)
    \/ \E c \in {Initializer} \cup LiveSenders : CommandSend(c)
    \/ \E c \in {Initializer} \cup LiveSenders : CommandRecv(c)
    \/ PeerReply
    \/ \E c \in LiveSenders : SendDownlinkFrame(c)
    \/ \E c \in LiveSenders : SendDownlinkFrameReply(c)
    \/ \E c \in LiveSenders : SendDownlinkFrameAck(c)
    \/ EventLoopRecv
    \/ EventLoopHandle
    \/ HandleUplinkFrameSend
    \/ HandleGatewayStatsSend
    \/ RecvDownlinkTXAck
    \/ RecvUplinkFrame
    \/ RecvGatewayStats
    \/ RecvSubscribeEvent

LiveSpec ==
    /\ Init
    /\ [][LiveNext]_vars
    /\ WF_vars(EventLoopHandle)
    /\ WF_vars(HandleUplinkFrameSend)
    /\ WF_vars(HandleGatewayStatsSend)
    /\ WF_vars(RecvUplinkFrame)
    /\ WF_vars(RecvGatewayStats)

\* ----------------------------------------------------------------- claims

\* C1: at most one command exchange is in flight at any time: while a request
\* is on the command socket or its reply is not yet received no other request
\* is sent, and every reply is received by the caller whose request produced it.
C1_SingleFlight ==
    /\ Len(cmdOut) + Len(cmdIn) <= 1
    /\ Cardinality({c \in Callers : pc[c] = "recv"}) <= 1
    /\ \A c \in Callers :
        pc[c] \in {"returned", "ack"} /\ ~res[c].err => res[c].of = c

\* Two SendDownlinkFrame calls overlap: one has its reply waiting on the
\* socket while the other waits for the mutex.
C1_Witness ==
    \E c, d \in Senders :
        /\ c # d
        /\ pc[c] = "recv"
        /\ cmdIn # <<>>
        /\ pc[d] = "lock"

\* The event message m is a two-frame "up" event whose payload decodes.
DecodableUp(m) ==
    /\ ~m.err
    /\ Len(m.frames) = 2
    /\ m.frames[1] = "up"
    /\ ~Unmarshal("UplinkFrame", m.frames[2]).err

\* C2: with CRC checking enabled no uplink frame whose CRC status is not CRC_OK
\* is on the uplink-frame queue or about to be sent on it; with CRC checking
\* disabled every decodable "up" event goes on to the channel send, whatever
\* its CRC status, and the loop leaves that send only by placing the frame.
C2_CrcGate ==
    /\ [](crcCheck =>
            /\ \A i \in 1..Len(uplinkFrameChan) : uplinkFrameChan[i].crc = CRC_OK
            /\ loopPc = "up" => loopPl[1].crc = CRC_OK)
    /\ [][~crcCheck /\ loopPc = "handle" /\ DecodableUp(loopMsg)
              /\ loopPc' # "handle" =>
                /\ loopPc' = "up"
                /\ loopPl'[1].crc = Unmarshal("UplinkFrame", loopMsg.frames[2]).pl.crc]_vars
    /\ [][loopPc = "up" /\ loopPc' # "up" =>
            uplinkFrameChan' = Append(uplinkFrameChan, loopPl[1])]_vars

\* CRC checking is disabled and a frame with a bad CRC is on the queue.
C2_Witness ==
    /\ ~crcCheck
    /\ uplinkFrameChan # <<>>
    /\ Head(uplinkFrameChan).crc = BAD_CRC

\* C3: none of the four output queues ever holds more than one item; a queue
\* changes only by an item appended to it or its head taken, so nothing is
\* overwritten or dropped; a producer that finds its queue full stays where it
\* is, with its item, until the queue is drained.
C3_Queues ==
    /\ [](\A i \in 1..4 : Len(chans[i]) <= 1)
    /\ [][\A i \in 1..4 :
            \/ chans[i]' = chans[i]
            \/ chans[i] # <<>> /\ chans[i]' = Tail(chans[i])
            \/ Len(chans[i]') = Len(chans[i]) + 1
                 /\ SubSeq(chans[i]', 1, Len(chans[i])) = chans[i]]_vars
    /\ [][Len(uplinkFrameChan) >= 1 /\ loopPc = "up" /\ fatal' = None =>
            \/ loopPc' = "up" /\ loopPl' = loopPl
            \/ uplinkFrameChan' = Tail(uplinkFrameChan)]_vars
    /\ [][Len(gatewayStatsChan) >= 1 /\ loopPc = "stats" /\ fatal' = None =>
            \/ loopPc' = "stats" /\ loopPl' = loopPl
            \/ gatewayStatsChan' = Tail(gatewayStatsChan)]_vars
    /\ [][\A c \in Senders :
            Len(downlinkTXAckChan) >= 1 /\ pc[c] = "ack" =>
                pc'[c] = "ack" /\ res'[c] = res[c]]_vars

\* The event loop is blocked on a full uplink-frame queue while a sender is
\* blocked on a full acknowledgement queue.
C3_Witness ==
    /\ loopPc = "up"
    /\ Len(uplinkFrameChan) = 1
    /\ \E c \in Senders : pc[c] = "ack" /\ Len(downlinkTXAckChan) = 1

\* C4: over the lifetime of a Backend exactly one SubscribeEvent is placed on
\* the subscribe-event queue: it is placed before NewBackend returns, nothing
\* is placed after it, it has Subscribe = TRUE and its GatewayID holds the
\* bytes of the reply to the gateway_id exchange.
C4_OneSubscribe ==
    /\ [](nSubscribe <= 1 /\ (newBackend \in {"go", "done"} => nSubscribe = 1))
    /\ [][Len(subscribeEventChan') > Len(subscribeEventChan) =>
            /\ nSubscribe = 0 /\ nSubscribe' = 1
            /\ subscribeEventChan' =
                 Append(subscribeEventChan, [Subscribe |-> TRUE, GatewayID |-> gatewayID])]_vars
    /\ [][nSubscribe' # nSubscribe =>
            Len(subscribeEventChan') = Len(subscribeEventChan) + 1]_vars
    /\ [][newBackend = "gateway_id" /\ newBackend' = "subscribe" =>
            /\ ~res[Initializer].err /\ res[Initializer].of = Initializer
            /\ \A i \in 1..EUI64Len :
                 gatewayID'[i] = IF i <= Len(res[Initializer].bb)
                                 THEN res[Initializer].bb[i] ELSE 0]_vars
    /\ [][newBackend = "subscribe" /\ newBackend' = "subscribe" =>
            gatewayID' = gatewayID]_vars
    /\ [](\A i \in 1..Len(subscribeEventChan) : subscribeEventChan[i].Subscribe)

\* A Backend that has produced its SubscribeEvent, which the application has
\* taken, has served a SendDownlinkFrame call and has been closed.
C4_Witness ==
    /\ newBackend = "done"
    /\ nSubscribe = 1
    /\ subscribeEventChan = <<>>
    /\ eventSockClosed
    /\ \E c \in Senders : ret[c] = "nil"

\* The value of a uint32 that a 31-bit integer holds.
ToInt(u) == u.hi * Limb + u.lo

\* C5: for every DownlinkFrame with LoRa modulation info and bandwidth B, the
\* bandwidth in the "down" request on the command channel equals B x 1000.
C5_WireBandwidthExact ==
    \A i \in 1..Len(cmdOut) :
        LET req == cmdOut[i]
        IN  req.command = "down" /\ pl[req.from].given.lora =>
                [ov |-> 0, hi |-> req.payload[2].bw.hi, lo |-> req.payload[2].bw.lo]
                    = WideMul1000(pl[req.from].given.bw)

\* The part of C5 that holds: the bandwidth on the wire is B x 1000 modulo
\* 2^32, hence B x 1000 whenever that fits in 32 bits.
C5_WireBandwidthWrapped ==
    \A i \in 1..Len(cmdOut) :
        LET req == cmdOut[i]
            w == WideMul1000(pl[req.from].given.bw)
        IN  req.command = "down" =>
                /\ req.payload[1] = "DownlinkFrame"
                /\ req.payload[2].lora = pl[req.from].given.lora
                /\ req.payload[2].lora =>
                     req.payload[2].bw = [hi |-> w.hi, lo |-> w.lo]
                /\ ~req.payload[2].lora => req.payload[2].bw = pl[req.from].given.bw

\* A "down" request is on the command channel for a frame whose bandwidth
\* times 1000 fits in 32 bits.
C5_Witness ==
    \E i \in 1..Len(cmdOut) :
        /\ cmdOut[i].command = "down"
        /\ pl[cmdOut[i].from].given.lora
        /\ pl[cmdOut[i].from].given.bw = U32(125)
        /\ ToInt(cmdOut[i].payload[2].bw) = 125000

\* C6 (second part): the uplink rebasing undoes the downlink rebasing: the
\* bandwidth a SendDownlinkFrame call sends, divided by 1000 as
\* handleUplinkFrame divides it, is the bandwidth the call was given.
C6_RoundTrip ==
    \A c \in Senders :
        pl[c].given.lora => Div1000(pl[c].sent.bw) = pl[c].given.bw

\* C6 (first part): the frame an "up" event with LoRa wire bandwidth W leads
\* to has bandwidth W / 1000 (rounded down), and keeps its other fields.
C6_UplinkRebased ==
    [][loopPc = "handle" /\ DecodableUp(loopMsg) /\ loopPc' = "up" =>
         LET f == Unmarshal("UplinkFrame", loopMsg.frames[2]).pl
         IN  /\ loopPl'[1].crc = f.crc
             /\ loopPl'[1].lora = f.lora
             /\ f.lora => ToInt(loopPl'[1].bw) = ToInt(f.bw) \div 1000
             /\ ~f.lora => loopPl'[1].bw = f.bw]_vars

\* The round trip of C6 for the bandwidths whose product with 1000 fits in 32
\* bits.
C6_RoundTripInRange ==
    \A c \in Senders :
        pl[c].given.lora /\ WideMul1000(pl[c].given.bw).ov = 0 =>
            Div1000(pl[c].sent.bw) = pl[c].given.bw

\* commandRequest has returned to SendDownlinkFrame in caller c without error
\* and with a reply of zero length.
EmptyReply(c) ==
    /\ pc[c] = "returned"
    /\ ~res[c].err
    /\ Len(res[c].bb) = 0

\* commandRequest has returned an error to SendDownlinkFrame in caller c.
RequestFailed(c) ==
    /\ pc[c] = "returned"
    /\ res[c].err

\* C7: whenever the reply to a "down" command has zero length, the call
\* returns an error and places no acknowledgement on the acknowledgement queue.
C7_EmptyReplyError ==
    [][\A c \in Senders :
         EmptyReply(c) /\ pc'[c] # pc[c] =>
            /\ pc'[c] = "idle"
            /\ ret'[c] \notin {None, "nil"}
            /\ downlinkTXAckChan' = downlinkTXAckChan]_vars

\* A call has returned the error for a reply of zero length.
C7_Witness ==
    \E c \in Senders : pc[c] = "idle" /\ ret[c] = "no reply"

C9_CommandFaultFatal ==
    /\ [][\A c \in Senders :
            RequestFailed(c) /\ pc'[c] # pc[c] =>
                /\ fatal' = "send downlink command error"
                /\ pc'[c] = "exit"
                /\ ret'[c] = None
                /\ chans' = chans]_vars
    /\ [][fatal # None => UNCHANGED <<fatal, chans, cmdOut, cmdIn, pc, ret, loopPc>>]_vars
    /\ [](\A c \in Senders : pc[c] = "exit" => fatal # None)

\* The process was terminated by a failed command exchange while the event
\* loop was about to send a frame on the uplink-frame queue.
C9_Witness ==
    /\ fatal = "send downlink command error"
    /\ \E c \in Senders : pc[c] = "exit" /\ res[c].err
    /\ loopPc = "up"

\* C10: the event loop stops only on a receive failure of the event channel,
\* which terminates the process: after any message (no frame, a frame count
\* other than two, an unknown topic, an undecodable payload, a dropped frame)
\* the loop goes on to a channel send or to the next receive; after the
\* failure it never receives again and no queue changes.
C10_LoopStopsOnRecvError ==
    /\ [][loopPc = "handle" /\ loopPc' # "handle" =>
            /\ loopMsg.err => loopPc' = "exit" /\ fatal' = "receive event message error"
            /\ ~loopMsg.err => loopPc' \in {"recv", "up", "stats"} /\ fatal' = fatal]_vars
    /\ [][(loopPc = "up" \/ loopPc = "stats") =>
            (loopPc' = loopPc \/ loopPc' = "recv")]_vars
    /\ [][loopPc = "recv" => (loopPc' = "recv" \/ loopPc' = "handle")]_vars
    /\ [][loopPc = "exit" => loopPc' = "exit" /\ chans' = chans]_vars
    /\ [](loopPc = "exit" => fatal = "receive event message error")

\* The event loop has stopped on a receive failure of the open event socket,
\* with a frame left on the uplink-frame queue.
C10_Witness ==
    /\ loopPc = "exit"
    /\ fatal = "receive event message error"
    /\ ~eventSockClosed
    /\ uplinkFrameChan # <<>>

\* The event message m has no frame, a frame count other than two, or two
\* frames with a topic that is neither "up" nor "stats".
Malformed(m) ==
    /\ ~m.err
    /\ \/ Len(m.frames) # 2
       \/ m.frames[1] \notin {"up", "stats"}

\* C11: an event message with zero parts, with a part count other than two, or
\* with two parts and an unknown topic never stops the event loop and leaves
\* the four output queues as they are: the loop body ends at the next receive,
\* with nothing to send and the process running.
C11_MalformedDropped ==
    [][loopPc = "handle" /\ Malformed(loopMsg) /\ loopPc' # "handle" =>
         /\ loopPc' = "recv"
         /\ loopPl' = <<>>
         /\ fatal' = fatal
         /\ chans' = chans]_vars

\* The loop has received a two-frame message with an unknown topic while a
\* frame and a stats item are on their queues.
C11_Witness ==
    /\ loopPc = "handle"
    /\ Malformed(loopMsg)
    /\ Len(loopMsg.frames) = 2
    /\ uplinkFrameChan # <<>>
    /\ gatewayStatsChan # <<>>

\* C12: Close closes only the event socket. The step of Close changes nothing
\* of the command path, of the loop, of the queues, and does not end the
\* process; with the socket closed every step of a SendDownlinkFrame command
\* exchange can still be taken; the loop's next Recv returns an error, and the
\* loop body then takes the log.Fatal that ends the process.
C12_CloseOnlyEventSock ==
    /\ [][eventSockClosed' # eventSockClosed =>
            /\ eventSockClosed'
            /\ UNCHANGED <<callerVars, sockVars, loopVars, chans, fatal>>]_vars
    /\ [](eventSockClosed /\ Alive =>
            /\ \A c \in Senders :
                 /\ pc[c] = "idle" => ENABLED SendDownlinkFrame(c)
                 /\ pc[c] = "lock" /\ commandMux = None => ENABLED CommandLock(c)
                 /\ pc[c] = "send" => ENABLED CommandSend(c)
                 /\ pc[c] = "recv" /\ cmdIn # <<>> => ENABLED CommandRecv(c)
                 /\ pc[c] = "returned" => ENABLED SendDownlinkFrameReply(c)
                 /\ pc[c] = "ack" /\ downlinkTXAckChan = <<>> =>
                      ENABLED SendDownlinkFrameAck(c)
            /\ cmdOut # <<>> => ENABLED PeerReply)
    /\ [][eventSockClosed /\ loopPc = "recv" /\ loopPc' # "recv" =>
            loopPc' = "handle" /\ loopMsg' = RecvError]_vars
    /\ [][loopPc = "handle" /\ loopMsg = RecvError /\ loopPc' # "handle" =>
            loopPc' = "exit" /\ fatal' = "receive event message error"]_vars

\* After Close the process runs, the loop has not yet called Recv again, and a
\* SendDownlinkFrame call has its acknowledgement from the command socket.
C12_Witness ==
    /\ eventSockClosed
    /\ fatal = None
    /\ loopPc = "recv"
    /\ \E c \in Senders : pc[c] = "ack" /\ res[c].of = c

\* getGatewayID has the result of the gateway_id exchange in hand.
GatewayIDReturned ==
    /\ newBackend = "gateway_id"
    /\ pc[Initializer] = "returned"

\* C13: NewBackend fails whenever the gateway_id exchange fails at the
\* transport level or returns a reply shorter than the 8 bytes of the
\* identifier; a failed NewBackend stays failed, has produced no SubscribeEvent
\* and has not started the event loop.
C13_InitFailsOnBadReply ==
    /\ [][GatewayIDReturned /\ newBackend' # newBackend
            /\ (res[Initializer].err \/ Len(res[Initializer].bb) < EUI64Len) =>
              newBackend' = "failed"]_vars
    /\ [][newBackend = "failed" => newBackend' = "failed"]_vars
    /\ [](newBackend = "failed" =>
            nSubscribe = 0 /\ subscribeEventChan = <<>> /\ loopPc = "off")

\* The part of C13 that holds: NewBackend fails whenever the gateway_id
\* exchange fails at the transport level, and then no SubscribeEvent is
\* produced and the loop is not started; a reply of any length, copied into
\* the zeroed identifier, lets NewBackend go on.
C13_InitFailsOnTransportError ==
    /\ [][GatewayIDReturned /\ newBackend' # newBackend =>
            IF res[Initializer].err
            THEN newBackend' = "failed"
            ELSE newBackend' = "subscribe"
                   /\ gatewayID' = CopyEUI64(res[Initializer].bb)]_vars
    /\ [][newBackend = "failed" => newBackend' = "failed"]_vars
    /\ [](newBackend = "failed" =>
            nSubscribe = 0 /\ subscribeEventChan = <<>> /\ loopPc = "off")

\* C14: a SendDownlinkFrame call whose exchange returned a non-empty, decodable
\* reply goes on to the channel send without returning; it leaves the channel
\* send only by appending the decoded reply to the acknowledgement queue, and
\* in that same step returns nil; nil is returned by no other step, and the
\* acknowledgement queue grows by no other step of a call.
C14_AckThenSuccess ==
    /\ [][\A c \in Senders :
            pc[c] = "returned" /\ HoldsAck(c) /\ pc'[c] # pc[c] =>
                /\ pc'[c] = "ack"
                /\ ret'[c] = None
                /\ res'[c] = res[c]
                /\ downlinkTXAckChan' = downlinkTXAckChan]_vars
    /\ [][\A c \in Senders :
            pc[c] = "ack" /\ pc'[c] # "ack" =>
                /\ pc'[c] = "idle"
                /\ ret'[c] = "nil"
                /\ downlinkTXAckChan' =
                     Append(downlinkTXAckChan, Unmarshal("DownlinkTXAck", res[c].bb).pl)]_vars
    /\ [][\A c \in Senders :
            ret'[c] = "nil" /\ ret[c] # "nil" =>
                /\ pc[c] = "ack"
                /\ Len(downlinkTXAckChan') = Len(downlinkTXAckChan) + 1]_vars
    /\ [][Len(downlinkTXAckChan') > Len(downlinkTXAckChan) =>
            Cardinality({c \in Senders : pc[c] = "ack" /\ pc'[c] = "idle"}) = 1]_vars
    /\ [](\A c \in Senders : pc[c] = "ack" => HoldsAck(c))

\* A call has returned nil and its acknowledgement is on the queue.
C14_Witness ==
    \E c \in Senders :
        /\ ret[c] = "nil"
        /\ pc[c] = "idle"
        /\ downlinkTXAckChan = <<[token |-> c]>>

\* C15: a command exchange has no timeout. A caller waiting in Recv leaves it
\* only with the peer's reply or with the loss of the connection; it holds the
\* mutex from its send to its return, and while the mutex is held every caller
\* waiting for it stays where it is. The event loop never takes part in the
\* command path: no step of the loop changes a caller, the mutex or the command
\* socket, and whatever the state of the command path the loop's next step
\* (receive, loop body, channel send to a queue with room) can be taken.
C15_NoTimeout ==
    /\ [][\A c \in Callers :
            pc[c] = "recv" /\ pc'[c] # "recv" =>
                \/ /\ cmdIn # <<>>
                   /\ ~res'[c].err
                   /\ res'[c].bb = Head(cmdIn).bytes
                \/ /\ res'[c].err
                   /\ cmdOut' = <<>>
                   /\ cmdIn' = <<>>]_vars
    /\ [](\A c \in Callers : pc[c] \in {"send", "recv"} <=> commandMux = c)
    /\ [][\A d \in Callers :
            pc[d] = "lock" /\ commandMux # None => pc'[d] = "lock"]_vars
    /\ [][loopVars' # loopVars => UNCHANGED <<callerVars, sockVars>>]_vars
    /\ [](Alive =>
            /\ loopPc = "recv" => ENABLED EventLoopRecv
            /\ loopPc = "handle" => ENABLED EventLoopHandle
            /\ loopPc = "up" /\ uplinkFrameChan = <<>> => ENABLED HandleUplinkFrameSend
            /\ loopPc = "stats" /\ gatewayStatsChan = <<>> =>
                 ENABLED HandleGatewayStatsSend)

\* The peer has not answered a request: its sender waits in Recv, the other
\* sender waits for the mutex, and the event loop is about to deliver a frame.
C15_Witness ==
    \E c, d \in Senders :
        /\ pc[c] = "recv"
        /\ cmdOut # <<>>
        /\ cmdIn = <<>>
        /\ pc[d] = "lock"
        /\ commandMux = c
        /\ loopPc = "up"
        /\ uplinkFrameChan = <<>>
        /\ fatal = None

\* The event message m has two frames, topic "up" or "stats", and a payload
\* that does not decode as the message of its topic.
Undecodable(m) ==
    /\ ~m.err
    /\ Len(m.frames) = 2
    /\ \/ m.frames[1] = "up" /\ Unmarshal("UplinkFrame", m.frames[2]).err
       \/ m.frames[1] = "stats" /\ Unmarshal("GatewayStats", m.frames[2]).err

\* C16: a two-part "up" or "stats" event whose payload cannot be decoded puts
\* nothing on any output queue and does not end the loop or the process: the
\* loop body ends at the next receive with nothing to send.
C16_UndecodableDropped ==
    [][loopPc = "handle" /\ Undecodable(loopMsg) /\ loopPc' # "handle" =>
         /\ loopPc' = "recv"
         /\ loopPl' = <<>>
         /\ fatal' = fatal
         /\ chans' = chans]_vars

\* With CRC checking disabled the loop has received an "up" event with an
\* undecodable payload; the uplink-frame queue has room.
C16_Witness ==
    /\ ~crcCheck
    /\ loopPc = "handle"
    /\ Undecodable(loopMsg)
    /\ loopMsg.frames[1] = "up"
    /\ uplinkFrameChan = <<>>

\* commandRequest has returned to SendDownlinkFrame in caller c without error
\* and with a reply that is not empty and does not decode.
BadReply(c) ==
    /\ pc[c] = "returned"
    /\ ~res[c].err
    /\ Len(res[c].bb) # 0
    /\ Unmarshal("DownlinkTXAck", res[c].bb).err

\* C17: when the reply to a "down" command is not empty but does not decode as
\* an acknowledgement, SendDownlinkFrame returns an error, puts nothing on the
\* acknowledgement queue, does not end the process and leaves the mutex and
\* the command socket as they are; after that return the caller can call
\* SendDownlinkFrame again.
C17_UndecodableReplyReturned ==
    /\ [][\A c \in Senders :
            BadReply(c) /\ pc'[c] # pc[c] =>
                /\ pc'[c] = "idle"
                /\ ret'[c] = "unmarshal error"
                /\ fatal' = None
                /\ downlinkTXAckChan' = downlinkTXAckChan
                /\ UNCHANGED <<commandMux, cmdOut, cmdIn>>]_vars
    /\ [](\A c \in Senders :
            ret[c] = "unmarshal error" /\ fatal = None =>
                /\ pc[c] = "idle"
                /\ commandMux # c
                /\ ENABLED SendDownlinkFrame(c))

\* A call has returned the decode error; the process runs on and the other
\* sender holds the mutex with its reply waiting on the command socket.
C17_Witness ==
    \E c, d \in Senders :
        /\ ret[c] = "unmarshal error"
        /\ fatal = None
        /\ commandMux = d
        /\ pc[d] = "recv"
        /\ cmdIn # <<>>

\* C18: initialization is ordered. The SubscribeEvent is placed only after the
\* gateway_id exchange has completed, on an empty queue, so that the send
\* never blocks; the event loop runs only after the SubscribeEvent was placed;
\* hence nothing is put on the uplink-frame or the stats queue before.
C18_InitOrder ==
    /\ [][nSubscribe' # nSubscribe =>
            /\ newBackend = "subscribe"
            /\ pc[Initializer] = "idle"
            /\ commandMux # Initializer
            /\ cmdOut = <<>> /\ cmdIn = <<>>
            /\ loopPc = "off"
            /\ subscribeEventChan' = <<SubscribeEvent(gatewayID)>>]_vars
    /\ [](nSubscribe = 1 <=> newBackend \in {"go", "done"})
    /\ [](newBackend = "subscribe" =>
            subscribeEventChan = <<>> /\ ENABLED NewBackendSubscribe)
    /\ [](loopPc # "off" => nSubscribe = 1)
    /\ [](nSubscribe = 0 => uplinkFrameChan = <<>> /\ gatewayStatsChan = <<>>)
    /\ [][Len(uplinkFrameChan') > Len(uplinkFrameChan)
            \/ Len(gatewayStatsChan') > Len(gatewayStatsChan) => nSubscribe = 1]_vars

\* The SubscribeEvent is still on its queue when the loop has put a frame on
\* the uplink-frame queue.
C18_Witness ==
    /\ newBackend = "done"
    /\ Len(subscribeEventChan) = 1
    /\ Len(uplinkFrameChan) = 1

\* Sender d completed its command exchange before sender c completed its own,
\* and still holds the acknowledgement it got.
HoldsEarlierAck(d, c) ==
    /\ d \in res[c].before
    /\ HoldsAck(d)
    /\ c \notin res[d].before

\* C19 as claimed: acknowledgements of concurrent SendDownlinkFrame calls go
\* on the acknowledgement queue in the order in which their command exchanges
\* completed: a call never places its acknowledgement while a call whose
\* exchange completed earlier still holds its own.
C19_AckOrder ==
    [][\A c \in Senders :
         pc[c] = "ack" /\ pc'[c] = "idle" =>
            \A d \in Senders \ {c} : ~HoldsEarlierAck(d, c)]_vars

\* C19 as amended: only the command exchanges are ordered (by the mutex).
\* Each call places the acknowledgement of its own exchange, after that
\* exchange; between calls that hold an acknowledgement at the same time
\* either one can be the next to place it.
C19_OwnAckAnyOrder ==
    /\ [][\A c \in Senders :
            pc[c] = "ack" /\ pc'[c] = "idle" =>
                /\ res[c].of = c
                /\ commandMux # c
                /\ downlinkTXAckChan' = Append(downlinkTXAckChan, [token |-> c])]_vars
    /\ [](\A c, d \in Senders :
            pc[c] = "ack" /\ pc[d] = "ack" /\ fatal = None
                /\ downlinkTXAckChan = <<>> =>
                  ENABLED SendDownlinkFrameAck(c) /\ ENABLED SendDownlinkFrameAck(d))

\* Two calls hold an acknowledgement each, the queue has room, and the call
\* whose exchange completed later is as ready to send as the earlier one.
C19_Witness ==
    \E c, d \in Senders :
        /\ c # d
        /\ pc[c] = "ack"
        /\ pc[d] = "ack"
        /\ HoldsEarlierAck(d, c)
        /\ downlinkTXAckChan = <<>>
        /\ fatal = None

\* The item the loop is to place for the event message m, if any: <<item>> for
\* a "stats" event that decodes and an "up" event that decodes and passes the
\* CRC gate, <<>> otherwise.
ItemOf(m) ==
    IF m.err \/ Len(m.frames) # 2 THEN <<>>
    ELSE IF m.frames[1] = "up" /\ ~Unmarshal("UplinkFrame", m.frames[2]).err
              /\ (crcCheck => Unmarshal("UplinkFrame", m.frames[2]).pl.crc = CRC_OK)
         THEN <<RebaseUp(Unmarshal("UplinkFrame", m.frames[2]).pl)>>
    ELSE IF m.frames[1] = "stats" /\ ~Unmarshal("GatewayStats", m.frames[2]).err
         THEN <<Unmarshal("GatewayStats", m.frames[2]).pl>>
    ELSE <<>>

\* The safety half of C20: the loop body turns a message with an item into
\* the channel send of exactly that item; the loop leaves a channel send only
\* by appending its item at the tail of the queue, once, and only then goes
\* to the next receive; the two queues grow by no other step.
C20_OncePerMessageInOrder ==
    /\ [][loopPc = "handle" /\ ItemOf(loopMsg) # <<>> /\ loopPc' # "handle" =>
            /\ loopPc' = (IF loopMsg.frames[1] = "up" THEN "up" ELSE "stats")
            /\ loopPl' = ItemOf(loopMsg)]_vars
    /\ [][loopPc = "up" /\ loopPc' # "up" =>
            /\ loopPc' = "recv"
            /\ loopPl' = <<>>
            /\ uplinkFrameChan' = Append(uplinkFrameChan, loopPl[1])
            /\ gatewayStatsChan' = gatewayStatsChan]_vars
    /\ [][loopPc = "stats" /\ loopPc' # "stats" =>
            /\ loopPc' = "recv"
            /\ loopPl' = <<>>
            /\ gatewayStatsChan' = Append(gatewayStatsChan, loopPl[1])
            /\ uplinkFrameChan' = uplinkFrameChan]_vars
    /\ [][Len(uplinkFrameChan') > Len(uplinkFrameChan) => loopPc = "up"]_vars
    /\ [][Len(gatewayStatsChan') > Len(gatewayStatsChan) => loopPc = "stats"]_vars
    /\ [][loopPc' = "handle" /\ loopPc # "handle" =>
            loopPc = "recv" /\ loopPl = <<>>]_vars

\* The event channel has failed or was closed.
EventChannelFailed ==
    eventSockClosed \/ fatal = "receive event message error"

\* C20 as claimed: if the upstream application keeps draining the queues and
\* the event channel does not fail, every received event that has an item is
\* eventually placed on its queue (the loop comes to the channel send of the
\* item and from there to the next receive).
C20_EventuallyPlaced ==
    /\ (loopPc = "handle" /\ ItemOf(loopMsg) # <<>>)
            ~> (loopPc = "up" \/ loopPc = "stats" \/ EventChannelFailed)
    /\ (loopPc = "up" \/ loopPc = "stats") ~> (loopPc = "recv" \/ EventChannelFailed)

\* C20 as amended: the same, unless a failed command exchange of
\* SendDownlinkFrame has terminated the process in the meantime; together
\* with the safety half.
C20_PlacedUnlessTerminated ==
    /\ C20_OncePerMessageInOrder
    /\ (loopPc = "handle" /\ ItemOf(loopMsg) # <<>>)
            ~> (loopPc = "up" \/ loopPc = "stats" \/ fatal = "send downlink command error")
    /\ (loopPc = "up" \/ loopPc = "stats")
            ~> (loopPc = "recv" \/ fatal = "send downlink command error")

\* The loop has placed a stats item and is blocked with a frame at the full
\* uplink-frame queue, which the application has yet to drain.
C20_Witness ==
    /\ loopPc = "up"
    /\ Len(uplinkFrameChan) = 1
    /\ Len(gatewayStatsChan) = 1
    /\ fatal = None

====
